---- MODULE Spec2Model ----
(***************************************************************************)
(* Model of the crate io-result-optional (src/src/lib.rs).                 *)
(*                                                                         *)
(* The crate is one method, IoResultOptional::optional, on io::Result<T>.  *)
(* It is modelled as the operator optional(self).  Two specifications      *)
(* apply it:                                                               *)
(*   Spec      a caller running the two documented call sites              *)
(*             (`.optional()?.map(readconfig).unwrap_or_default()` and     *)
(*             `if let Some(input) = ....optional()? { .. }`) again and    *)
(*             again, with the log of the calls completed so far;          *)
(*   SpecConc  several threads each calling optional() on an input of      *)
(*             their own, as the test harness runs the unit tests.         *)
(***************************************************************************)
EXTENDS Integers, Sequences, FiniteSets, TLC

VARIABLES
    pc,       \* position of the documented caller (main)
    prog,     \* which documented call site main runs
    inp,      \* the io::Result<T> the access produced (self of optional)
    out,      \* the io::Result<Option<T>> optional() returned
    opt,      \* the Option<T> the `?` operator unwrapped
    config,   \* `let config` of the first example
    handled,  \* whether the `if let Some(input)` body ran
    ret,      \* what main returned
    log,      \* the calls completed so far: [input, output], in order
    tpc,      \* per thread: position
    tinp,     \* per thread: its own input
    tout      \* per thread: the result its call returned

vars == <<pc, prog, inp, out, opt, config, handled, ret, log, tpc, tinp, tout>>
mainVars == <<pc, prog, inp, out, opt, config, handled, ret, log>>
threadVars == <<tpc, tinp, tout>>

(***************************************************************************)
(* Bounds of the model.                                                    *)
(***************************************************************************)
NThreads == 2
MaxCalls == 3

Threads == 1..NThreads

(***************************************************************************)
(* Values: Option<T>, Result<T, E>, io::Error, and the payload type T.     *)
(***************************************************************************)
None == [is_some |-> FALSE]
Some(v) == [is_some |-> TRUE, value |-> v]

Ok(v) == [tag |-> "Ok", value |-> v]
Err(e) == [tag |-> "Err", error |-> e]

\* A slot nothing has been stored in yet.
Unset == [tag |-> "Unset"]
\* The unit value () of main's Ok(()).
Unit == [tag |-> "unit"]
U8(n) == [tag |-> "u8", value |-> n]

ErrorKind == {"NotFound", "TimedOut", "PermissionDenied"}
Messages == {"no such file", "too slow"}
\* io::Error::new(kind, error): Custom { kind, error }
IoError == [kind : ErrorKind, error : Messages]

\* The payload type T is instantiated with Option<u8>, so that a payload can
\* itself be the absent value.
Payload == {None, Some(42)}

AccessOutcome == {Ok(x) : x \in Payload} \cup {Err(e) : e \in IoError}
PresenceOutcome ==
    {Ok(Some(x)) : x \in Payload} \cup {Ok(None)} \cup {Err(e) : e \in IoError}

(***************************************************************************)
(* Faulty variants of optional, each the result of one plausible slip.     *)
(***************************************************************************)
\* Err(e) => Err(io::Error::from(e.kind())): the error is rebuilt from its
\* kind and the message is lost.
optionalRewrap(self) ==
    CASE self.tag = "Ok" -> Ok(Some(self.value))
      [] self.tag = "Err" /\ self.error.kind = "NotFound" -> Ok(None)
      [] OTHER -> Err([kind |-> self.error.kind, error |-> ""])

\* The catch-all arm Err(e) => Err(e) written before the guarded arm.
optionalArmsSwapped(self) ==
    CASE self.tag = "Ok" -> Ok(Some(self.value))
      [] OTHER -> Err(self.error)

\* A payload that is itself absent is flattened into Ok(None).
optionalCollapseEmpty(self) ==
    CASE self.tag = "Ok" /\ self.value = None -> Ok(None)
      [] self.tag = "Ok" -> Ok(Some(self.value))
      [] self.tag = "Err" /\ self.error.kind = "NotFound" -> Ok(None)
      [] OTHER -> Err(self.error)

\* Err(e) => panic!(..) in place of the pass-through arm.
optionalPanics(self) ==
    CASE self.tag = "Ok" -> Ok(Some(self.value))
      [] self.tag = "Err" /\ self.error.kind = "NotFound" -> Ok(None)
      [] OTHER -> [tag |-> "Panic"]

\* A static flag remembers that a NotFound was seen and is consulted by the
\* guard of later calls.
optionalMemo(self) ==
    CASE self.tag = "Ok" -> Ok(Some(self.value))
      [] self.tag = "Err" /\ (\/ self.error.kind = "NotFound"
                              \/ \E i \in 1..Len(log) : log[i].output = Ok(None))
           -> Ok(None)
      [] OTHER -> Err(self.error)

\* Ok(self.ok()): every error becomes None.
optionalOk(self) ==
    CASE self.tag = "Ok" -> Ok(Some(self.value))
      [] OTHER -> Ok(None)

\* The guard written with != in place of ==.
optionalInverted(self) ==
    CASE self.tag = "Ok" -> Ok(Some(self.value))
      [] self.tag = "Err" /\ self.error.kind # "NotFound" -> Ok(None)
      [] OTHER -> Err(self.error)

\* The value being matched is parked in a static slot shared by all threads:
\* a call made while another thread's call is in flight classifies that
\* thread's input.
optionalSharedScratch(self) ==
    LET others == {u \in Threads : tpc[u] = "called" /\ tinp[u] # self}
        scratch == IF others = {} THEN self ELSE tinp[CHOOSE u \in others : TRUE]
    IN  CASE scratch.tag = "Ok" -> Ok(Some(scratch.value))
          [] scratch.tag = "Err" /\ scratch.error.kind = "NotFound" -> Ok(None)
          [] OTHER -> Err(scratch.error)

(***************************************************************************)
(* IoResultOptional::optional                                              *)
(***************************************************************************)
optional(self) ==
    CASE self.tag = "Ok" -> Ok(Some(self.value))
      [] self.tag = "Err" /\ self.error.kind = "NotFound" -> Ok(None)
      [] OTHER -> Err(self.error)

(***************************************************************************)
(* What the documented callers apply to the result.                        *)
(***************************************************************************)
readconfig(data) == 17

\* Option::map(f) followed by Option::unwrap_or_default() at type u8.
map_readconfig(o) == IF o.is_some THEN Some(readconfig(o.value)) ELSE None
unwrap_or_default(o) == IF o.is_some THEN o.value ELSE 0

Init ==
    /\ pc = "idle"
    /\ prog = "readconfig"
    /\ inp = Unset
    /\ out = Unset
    /\ opt = Unset
    /\ config = Unset
    /\ handled = FALSE
    /\ ret = Unset
    /\ log = <<>>
    /\ tpc = [t \in Threads |-> "idle"]
    /\ tinp = [t \in Threads |-> Unset]
    /\ tout = [t \in Threads |-> Unset]

(***************************************************************************)
(* The documented caller.                                                  *)
(***************************************************************************)
\* main starts and the access (File::open) produces r.
Open(p, r) ==
    /\ pc \in {"idle", "done"}
    /\ Len(log) < MaxCalls
    /\ pc' = "optional"
    /\ prog' = p
    /\ inp' = r
    /\ out' = Unset
    /\ opt' = Unset
    /\ config' = Unset
    /\ handled' = FALSE
    /\ ret' = Unset
    /\ UNCHANGED <<log, threadVars>>

\* .optional()
Optional ==
    /\ pc = "optional"
    /\ out' = optional(inp)
    /\ log' = Append(log, [input |-> inp, output |-> optional(inp)])
    /\ pc' = "question"
    /\ UNCHANGED <<prog, inp, opt, config, handled, ret, threadVars>>

\* The `?` operator: an Err returns from main with that error, an Ok unwraps.
Question ==
    /\ pc = "question"
    /\ IF out.tag = "Err"
         THEN /\ ret' = Err(out.error)
              /\ pc' = "done"
              /\ opt' = opt
         ELSE /\ opt' = out.value
              /\ pc' = "bind"
              /\ ret' = ret
    /\ UNCHANGED <<prog, inp, out, config, handled, log, threadVars>>

\* let config = ... .map(readconfig).unwrap_or_default(); Ok(())
MapUnwrapOrDefault ==
    /\ pc = "bind"
    /\ prog = "readconfig"
    /\ config' = U8(unwrap_or_default(map_readconfig(opt)))
    /\ ret' = Ok(Unit)
    /\ pc' = "done"
    /\ UNCHANGED <<prog, inp, out, opt, handled, log, threadVars>>

\* if let Some(input) = ... { handle it }; Ok(())
IfLetSome ==
    /\ pc = "bind"
    /\ prog = "iflet"
    /\ handled' = opt.is_some
    /\ ret' = Ok(Unit)
    /\ pc' = "done"
    /\ UNCHANGED <<prog, inp, out, opt, config, log, threadVars>>

Next ==
    \/ \E p \in {"readconfig", "iflet"}, r \in AccessOutcome : Open(p, r)
    \/ Optional
    \/ Question
    \/ MapUnwrapOrDefault
    \/ IfLetSome

Spec == Init /\ [][Next]_vars

(***************************************************************************)
(* Threads calling optional() on inputs of their own.                      *)
(***************************************************************************)
ThreadCall(t, r) ==
    /\ tpc[t] = "idle"
    /\ tinp' = [tinp EXCEPT ![t] = r]
    /\ tout' = [tout EXCEPT ![t] = Unset]
    /\ tpc' = [tpc EXCEPT ![t] = "called"]
    /\ UNCHANGED mainVars

ThreadOptional(t) ==
    /\ tpc[t] = "called"
    /\ tout' = [tout EXCEPT ![t] = optional(tinp[t])]
    /\ tpc' = [tpc EXCEPT ![t] = "returned"]
    /\ UNCHANGED <<tinp, mainVars>>

ThreadExit(t) ==
    /\ tpc[t] = "returned"
    /\ tpc' = [tpc EXCEPT ![t] = "idle"]
    /\ UNCHANGED <<tinp, tout, mainVars>>

NextConc ==
    \E t \in Threads :
        \/ \E r \in AccessOutcome : ThreadCall(t, r)
        \/ ThreadOptional(t)
        \/ ThreadExit(t)

SpecConc == Init /\ [][NextConc]_vars

(***************************************************************************)
(* Properties.                                                             *)
(***************************************************************************)
\* optional() has returned in main's current call: inp and out belong to it.
Returned == pc \in {"question", "bind", "done"}

IsNotFound(r) == r.tag = "Err" /\ r.error.kind = "NotFound"
IsOtherError(r) == r.tag = "Err" /\ r.error.kind # "NotFound"

\* C1: for an error e whose kind is not NotFound, optional() of Err(e) is
\* Err(e) with the same kind and the same message.
C1_OtherErrorPassThrough ==
    (Returned /\ IsOtherError(inp)) =>
        /\ out.tag = "Err"
        /\ out.error.kind = inp.error.kind
        /\ out.error.error = inp.error.error
        /\ out = inp

C1_Witness ==
    /\ Returned
    /\ inp = Err([kind |-> "TimedOut", error |-> "too slow"])
    /\ out = Err([kind |-> "TimedOut", error |-> "too slow"])

\* C2: for an error e of kind NotFound, optional() of Err(e) is Ok(None),
\* whatever the message of e.
C2_NotFoundIsNone ==
    (Returned /\ IsNotFound(inp)) => out = Ok(None)

C2_Witness ==
    /\ Returned
    /\ inp = Err([kind |-> "NotFound", error |-> "no such file"])
    /\ out = Ok(None)
    /\ \E i \in 1..Len(log) :
          /\ log[i].input = Err([kind |-> "NotFound", error |-> "too slow"])
          /\ log[i].output = Ok(None)

\* C3: for a payload x, optional() of Ok(x) is Ok(Some(x)) with x unchanged.
C3_OkIsSome ==
    (Returned /\ inp.tag = "Ok") =>
        /\ out.tag = "Ok"
        /\ out.value.is_some
        /\ out.value.value = inp.value

C3_Witness ==
    /\ Returned
    /\ inp = Ok(Some(42))
    /\ out = Ok(Some(Some(42)))

\* C4: optional() is total: a call that has started can always return, and
\* what it returns is one Presence Outcome, accounted for by exactly one of
\* the three cases (Ok, Err NotFound, Err other).
C4_CaseOk == inp.tag = "Ok" /\ out.tag = "Ok" /\ out.value.is_some
C4_CaseNotFound == IsNotFound(inp) /\ out = Ok(None)
C4_CaseOther == IsOtherError(inp) /\ out.tag = "Err"

C4_Total ==
    /\ pc = "optional" => (inp \in AccessOutcome /\ ENABLED Optional)
    /\ Returned =>
          /\ out \in PresenceOutcome
          /\ Cardinality({c \in {"Ok", "NotFound", "Other"} :
                \/ c = "Ok" /\ C4_CaseOk
                \/ c = "NotFound" /\ C4_CaseNotFound
                \/ c = "Other" /\ C4_CaseOther}) = 1

C4_Witness ==
    /\ Returned
    /\ \E i, j, k \in 1..Len(log) :
          /\ log[i].input.tag = "Ok" /\ log[i].output.tag = "Ok"
          /\ IsNotFound(log[j].input) /\ log[j].output = Ok(None)
          /\ IsOtherError(log[k].input) /\ log[k].output.tag = "Err"

C6_CallerOutcome ==
    pc = "done" =>
        /\ inp.tag = "Ok" =>
              /\ ret = Ok(Unit)
              /\ prog = "readconfig" => config = U8(17)
              /\ prog = "iflet" => handled
        /\ IsNotFound(inp) =>
              /\ ret = Ok(Unit)
              /\ prog = "readconfig" => config = U8(0)
              /\ prog = "iflet" => ~handled
        /\ IsOtherError(inp) =>
              /\ ret = inp
              /\ config = Unset
              /\ ~handled

C6_Witness ==
    /\ pc = "done"
    /\ IsOtherError(inp)
    /\ ret = inp
    /\ \E i \in 1..Len(log) : IsNotFound(log[i].input)
    /\ \E i \in 1..Len(log) : log[i].input.tag = "Ok"

\* C7: optional() never fails on its own: an Err(e) output comes only from
\* an Err(e) input whose kind is not NotFound.
C7_NoOwnFailure ==
    (Returned /\ out.tag # "Ok") =>
        /\ IsOtherError(inp)
        /\ out = inp

C7_Witness ==
    /\ Returned
    /\ out.tag = "Err"
    /\ inp.error.kind = "PermissionDenied"

\* C8: with several threads each calling optional() on its own input, every
\* call returns what it returns when run alone on that input, and a step of
\* one thread leaves the input and the result of every other thread as they
\* were.
C8_Alone(r) ==
    IF r.tag = "Ok" THEN Ok(Some(r.value))
    ELSE IF r.error.kind = "NotFound" THEN Ok(None)
    ELSE Err(r.error)

C9_NoneIffNotFound ==
    Returned => (out = Ok(None) <=> IsNotFound(inp))

C9_Witness ==
    /\ Returned
    /\ inp = Ok(None)
    /\ out = Ok(Some(None))
    /\ out # Ok(None)

====
